---- MODULE Spec2Model ----
(***************************************************************************)
(* Model of uh_mcp.py: the nocturnal analysis pipeline of                  *)
(* analyze_night_heart_rate and the analyzers it calls.                    *)
(*                                                                         *)
(* Representation of the Python values:                                    *)
(*   dict            a record; a key is present iff it is in DOMAIN;       *)
(*                   {} is the empty record <<>>                           *)
(*   list            a sequence; [] is <<>>                                *)
(*   None            Null, where a JSON null stands in place of a dict;    *)
(*                   NullList, where it stands in place of a list          *)
(*   Optional[int]   <<>> for None, <<v>> for the integer v                *)
(*   timestamps      integer epoch seconds                                 *)
(*   heart rate, HRV integers                                              *)
(*   temperature     integer thousandths of a degree Celsius               *)
(*   datetime.fromtimestamp(t) is kept as the timestamp t                  *)
(***************************************************************************)
EXTENDS Integers, Sequences, FiniteSets, TLC

VARIABLES pc, api_data, hr_values, sleep_obj, hrv_values, temp_values,
          sleep_metrics, hr_drops, lowest_hr, temp_analysis, avg_hrv,
          result, executed, filtered

vars == <<pc, api_data, hr_values, sleep_obj, hrv_values, temp_values,
          sleep_metrics, hr_drops, lowest_hr, temp_analysis, avg_hrv,
          result, executed, filtered>>

----------------------------------------------------------------------------
(* Python value helpers *)

Null == [json_null |-> TRUE]

Has(d, k) == k \in DOMAIN d

Get(d, k, default) == IF Has(d, k) THEN d[k] ELSE default

\* `not x` for a dict or None
Falsy(x) == x = <<>> \/ x = Null

\* a JSON null where the code expects a list: not a sequence
NullList == [i \in {0} |-> TRUE]

\* `not xs` for a list or None
Empty(xs) == xs = <<>> \/ xs = NullList

\* `for x in xs` raises TypeError
NotIterable(xs) == xs = NullList

\* `not d.get(k)` for an integer-valued key: absent or zero
NotTruthy(d, k) == ~Has(d, k) \/ d[k] = 0

Abs(x) == IF x < 0 THEN -x ELSE x

RECURSIVE SumValues(_)
SumValues(s) == IF s = <<>> THEN 0 ELSE s[1]["value"] + SumValues(Tail(s))

\* int(num / den) for den > 0: truncation toward zero
TruncDiv(num, den) == IF num >= 0 THEN num \div den ELSE -((-num) \div den)

----------------------------------------------------------------------------
(* Python floats: IEEE 754 binary64, round to nearest, ties to even.        *)
(* A reading is given in the document as a decimal, here an integer number  *)
(* of thousandths of a degree; json.loads turns it into the nearest double. *)
(* A double is held exactly as [n, d, f, e, s], standing for the rational   *)
(*     (n + e / 2^f) / (1000 * d * 2^s)                                     *)
(* n / (1000 * d) is the decimal (or mean of decimals) it came from and     *)
(* e / 2^f the accumulated representation error, of magnitude below 1.      *)
(* s is 0 but for the quotient of a sum whose decimals cancelled to zero:   *)
(* such a sum is the error term alone, and its quotient is rounded as the   *)
(* decimal e / (1000 * d) on the scale 2^-f.                                *)
(* All intermediate integers stay within 32 bits for readings below 2^29    *)
(* thousandths.                                                             *)

MantissaBits == 52

RECURSIVE Pow2(_)
Pow2(k) == IF k = 0 THEN 1 ELSE 2 * Pow2(k - 1)

\* a * b modulo m for 0 <= a, b < m, bit by bit when the product is too wide
RECURSIVE MulModBits(_, _, _)
MulModBits(a, b, m) ==
    IF b = 0 THEN 0
    ELSE LET h == (2 * MulModBits(a, b \div 2, m)) % m
         IN  IF b % 2 = 1 THEN (h + a) % m ELSE h

MulMod(a, b, m) == IF m <= 46340 THEN (a * b) % m ELSE MulModBits(a, b, m)

\* 2^k modulo m, ten bits at a time
RECURSIVE Pow2Mod(_, _)
Pow2Mod(k, m) ==
    IF k <= 10 THEN Pow2(k) % m ELSE MulMod(1024 % m, Pow2Mod(k - 10, m), m)

Dbl(n, d, f, e) == [n |-> n, d |-> d, f |-> f, e |-> e, s |-> 0]

\* x / 2^s: rounding to 53 bits is the same on every binary scale
DblScaled(x, s) == [x EXCEPT !.s = @ + s]

DblNeg(x) == [x EXCEPT !.n = -@, !.e = -@]

DblIsNeg(x) == x.n < 0 \/ (x.n = 0 /\ x.e < 0)

\* abs(x)
DblAbs(x) == IF DblIsNeg(x) THEN DblNeg(x) ELSE x

\* the p with m * 2^p <= n < m * 2^(p + 1), for n > 0 and m > 0
RECURSIVE Log2Floor(_, _)
Log2Floor(n, m) ==
    IF n >= m THEN (IF n \div 2 >= m THEN 1 + Log2Floor(n \div 2, m) ELSE 0)
    ELSE Log2Floor(2 * n, m) - 1

\* e * 2^s
Scale(e, s) == IF e = 0 THEN 0 ELSE e * Pow2(s)

\* floor(e / 2^s), and whether a remainder is dropped
FloorShift(e, s) ==
    IF s <= 0 THEN [q |-> Scale(e, -s), sticky |-> FALSE]
    ELSE IF s >= 31 THEN [q |-> IF e < 0 THEN -1 ELSE 0, sticky |-> e # 0]
    ELSE [q |-> e \div Pow2(s), sticky |-> e % Pow2(s) # 0]

\* floor(e1 * 2^(k - f1) + e2 * 2^(k - f2)) for k < f2, and whether a
\* remainder is dropped
TruncatedOnto(part, s) == [q |-> FloorShift(part.q, s).q,
                           sticky |-> part.sticky \/ FloorShift(part.q, s).sticky]

Truncated(e1, f1, e2, f2, k) ==
    IF k >= f1
    THEN [q |-> Scale(e1, k - f1) + FloorShift(e2, f2 - k).q,
          sticky |-> FloorShift(e2, f2 - k).sticky]
    ELSE TruncatedOnto([q |-> e1 + FloorShift(e2, f2 - f1).q,
                        sticky |-> FloorShift(e2, f2 - f1).sticky], f1 - k)

\* n = m * 2^p
IsPower(n, m, p) == IF p >= 0 THEN n = m * Pow2(p) ELSE n * Pow2(-p) = m

\* 52 less the binary exponent p of a value just above (err >= 0) or just
\* below (err < 0) n / m: the doubles around it are the multiples of 2^-k
GridAt(n, m, err, p) == MantissaBits - (IF err < 0 /\ IsPower(n, m, p) THEN p - 1 ELSE p)

GridOf(n, m, err) == GridAt(n, m, err, Log2Floor(n, m))

\* (n * 2^k + q) modulo 2m
Residue(n, m, k, q) ==
    (MulMod(n % (2 * m), Pow2Mod(k, 2 * m), 2 * m) + q) % (2 * m)

\* (n * 2^k + e1 * 2^(k - f1) + e2 * 2^(k - f2)) modulo 2m, for k >= f2 >= f1
FineResidue(n, m, k, e1, f1, e2, f2) ==
    (MulMod(n % (2 * m), Pow2Mod(k, 2 * m), 2 * m)
     + MulMod(e1 % (2 * m), Pow2Mod(k - f1, 2 * m), 2 * m)
     + MulMod(e2 % (2 * m), Pow2Mod(k - f2, 2 * m), 2 * m)) % (2 * m)

\* the neighbour on the grid 2^-k of (n + (q + rest) / 2^k) / m, 0 <= rest < 1
\* (rest > 0 iff sticky), where y is the residue of n * 2^k + q modulo 2m:
\* the nearer one, and on a tie the one with the even mantissa
Rounded(n, d, m, k, q, sticky, y) ==
    IF 2 * (y % m) < m \/ (2 * (y % m) = m /\ ~sticky /\ y < m)
    THEN Dbl(n, d, k, q - (y % m))
    ELSE Dbl(n, d, k, q - (y % m) + m)

\* k >= f2: the value is kept when it lies on the grid
RoundFine(n, d, e1, f1, e2, f2, k, y) ==
    IF y % (1000 * d) = 0 THEN Dbl(n, d, f2, Scale(e1, f2 - f1) + e2)
    ELSE Rounded(n, d, 1000 * d, k, Scale(e1, k - f1) + Scale(e2, k - f2), FALSE, y)

\* k < f2
RoundCoarse(n, d, k, part) ==
    Rounded(n, d, 1000 * d, k, part.q, part.sticky, Residue(n, 1000 * d, k, part.q))

DblNearestOnGrid(n, d, e1, f1, e2, f2, k) ==
    IF k >= f2
    THEN RoundFine(n, d, e1, f1, e2, f2, k, FineResidue(n, 1000 * d, k, e1, f1, e2, f2))
    ELSE RoundCoarse(n, d, k, Truncated(e1, f1, e2, f2, k))

\* the double nearest to the rational (n + e1 / 2^f1 + e2 / 2^f2) / (1000 * d),
\* for n > 0 and f1 <= f2; ties go to the even mantissa
DblNearestPositive(n, d, e1, f1, e2, f2) ==
    DblNearestOnGrid(n, d, e1, f1, e2, f2,
                     GridOf(n, 1000 * d, e1 + FloorShift(e2, f2 - f1).q))

\* the same for any sign; with n = 0 the value is the sum of the two error
\* terms, a double itself while its numerator stays within 32 bits
DblNearest(n, d, e1, f1, e2, f2) ==
    IF n = 0 THEN Dbl(0, d, f2, Scale(e1, f2 - f1) + e2)
    ELSE IF n < 0 THEN DblNeg(DblNearestPositive(-n, d, -e1, f1, -e2, f2))
    ELSE DblNearestPositive(n, d, e1, f1, e2, f2)

\* the float json.loads makes of the decimal n / 1000
DblOfDecimal(n) == DblNearest(n, 1, 0, 0, 0, 0)

\* x + y and x - y, for x and y on the same scale s (the code adds readings
\* and partial sums, for which s = 0)
DblAdd(x, y) ==
    DblScaled(IF x.f <= y.f
              THEN DblNearest(x.n * y.d + y.n * x.d, x.d * y.d, x.e * y.d, x.f, y.e * x.d, y.f)
              ELSE DblNearest(x.n * y.d + y.n * x.d, x.d * y.d, y.e * x.d, y.f, x.e * y.d, x.f),
              x.s)

DblSub(x, y) == DblAdd(x, DblNeg(y))

\* x / k for an int k > 0; an x that is its error term alone,
\* e / (1000 * d * 2^(f + s)), is divided as the decimal e / (1000 * d)
DblDivInt(x, k) ==
    IF x.n = 0 /\ x.e # 0
    THEN DblScaled(DblNearest(x.e, x.d * k, 0, 0, 0, 0), x.f + x.s)
    ELSE DblScaled(DblNearest(x.n, x.d * k, x.e, x.f, 0, x.f), x.s)

\* x <= c / 1000 for an integer c; from s = 31 on, x is below 0.001 in magnitude
DblLeqDecimal(x, c) ==
    IF x.s >= 31 THEN c > 0 \/ (c = 0 /\ ~DblIsNeg(DblNeg(x)))
    ELSE \/ x.n < c * x.d * Pow2(x.s)
         \/ (x.n = c * x.d * Pow2(x.s) /\ x.e <= 0)

\* sum(values): 0 + v1 + v2 + ... from the left (a double's d is positive;
\* the test has the partial sum evaluated before the recursion descends)
RECURSIVE DblSumFrom(_, _, _)
DblSumFrom(s, i, total) ==
    IF i > Len(s) THEN total
    ELSE IF DblAdd(total, DblOfDecimal(s[i]["value"])).d >= 1
    THEN DblSumFrom(s, i + 1, DblAdd(total, DblOfDecimal(s[i]["value"])))
    ELSE total

DblSum(s) == DblSumFrom(s, 1, Dbl(0, 1, 0, 0))

\* round(x, 2), in thousandths (a multiple of 10): the two-decimal number
\* nearest to the exact value of the double x; only a double that is itself
\* a tie goes to the even neighbour; from s = 31 on, x is below 0.001 in
\* magnitude
Round2(x) ==
    IF x.s >= 31 THEN 0
    ELSE LET den == 10 * x.d * Pow2(x.s)
             q   == x.n \div den
             r   == x.n % den
         IN  10 * (IF 2 * r < den THEN q
                   ELSE IF 2 * r > den THEN q + 1
                   ELSE IF x.e > 0 THEN q + 1
                   ELSE IF x.e < 0 THEN q
                   ELSE IF q % 2 = 0 THEN q ELSE q + 1)

----------------------------------------------------------------------------
(* Helpers of the analyzers *)

MissingKey(values, k) == \E i \in DOMAIN values : ~Has(values[i], k)

\* sorted(xs, key=timestamp): insertion of x after the entries not later than it
RECURSIVE InsertByTimestamp(_, _)
InsertByTimestamp(x, s) ==
    IF s = <<>> THEN <<x>>
    ELSE IF s[Len(s)]["timestamp"] <= x["timestamp"] THEN Append(s, x)
    ELSE Append(InsertByTimestamp(x, SubSeq(s, 1, Len(s) - 1)), s[Len(s)])

RECURSIVE SortByTimestamp(_)
SortByTimestamp(s) ==
    IF s = <<>> THEN <<>>
    ELSE InsertByTimestamp(s[Len(s)], SortByTimestamp(SubSeq(s, 1, Len(s) - 1)))

----------------------------------------------------------------------------
(* find_heart_rate_drops *)

HrDropThreshold == 10
MaxDropGapMinutes == 30
SecondsPerMinute == 60

sleep_hr_values_drops(values, bedtime_start, bedtime_end) ==
    SelectSeq(values, LAMBDA hr : hr["timestamp"] >= bedtime_start
                                 /\ hr["timestamp"] <= bedtime_end)

\* time_diff_minutes = time_diff_seconds / 60 is a real number; the event
\* keeps the seconds and the ceiling is compared without rounding
HrDropQualifies(prev, cur) ==
    /\ cur["value"] - prev["value"] <= -HrDropThreshold
    /\ cur["timestamp"] - prev["timestamp"] <= MaxDropGapMinutes * SecondsPerMinute

HrDropEvent(prev, cur) ==
    [timestamp         |-> cur["timestamp"],
     from_hr           |-> prev["value"],
     to_hr             |-> cur["value"],
     drop              |-> Abs(cur["value"] - prev["value"]),
     time_diff_seconds |-> cur["timestamp"] - prev["timestamp"]]

\* the loop over sorted_data, up to and including entry i
RECURSIVE HrDropWalk(_, _)
HrDropWalk(sorted_data, i) ==
    IF i < 2 THEN <<>>
    ELSE LET drops == HrDropWalk(sorted_data, i - 1)
             prev  == sorted_data[i - 1]
             cur   == sorted_data[i]
         IN  IF HrDropQualifies(prev, cur)
             THEN Append(drops, HrDropEvent(prev, cur))
             ELSE drops

\* the local sleep_hr_values once line 104 has run
HrDropsLocal(values, sleep) ==
    IF \/ NotTruthy(sleep, "bedtime_start") \/ NotTruthy(sleep, "bedtime_end")
       \/ NotIterable(values) \/ MissingKey(values, "timestamp")
    THEN <<>>
    ELSE <<sleep_hr_values_drops(values, sleep["bedtime_start"], sleep["bedtime_end"])>>

find_heart_rate_drops(values, sleep) ==
    IF NotTruthy(sleep, "bedtime_start") \/ NotTruthy(sleep, "bedtime_end")
    THEN <<>>
    ELSE IF NotIterable(values) \/ MissingKey(values, "timestamp") THEN <<>>
    ELSE LET sleep_hr_values ==
                 sleep_hr_values_drops(values, sleep["bedtime_start"], sleep["bedtime_end"])
         IN  IF MissingKey(sleep_hr_values, "value") THEN <<>>
             ELSE HrDropWalk(SortByTimestamp(sleep_hr_values), Len(sleep_hr_values))

----------------------------------------------------------------------------
(* find_lowest_heart_rate *)

sleep_hr_values_lowest(values, bedtime_start, bedtime_end) ==
    SelectSeq(values, LAMBDA hr : hr["timestamp"] >= bedtime_start
                                 /\ hr["timestamp"] <= bedtime_end)

\* min(xs, key=value): the first entry that no entry undercuts
MinByValue(xs) ==
    xs[CHOOSE i \in DOMAIN xs :
          /\ \A j \in DOMAIN xs : xs[i]["value"] <= xs[j]["value"]
          /\ \A j \in 1..(i - 1) : xs[j]["value"] > xs[i]["value"]]

\* max(xs, key=value): the first entry no later entry exceeds
MaxByValue(xs) ==
    xs[CHOOSE i \in DOMAIN xs :
          /\ \A j \in DOMAIN xs : xs[i]["value"] >= xs[j]["value"]
          /\ \A j \in 1..(i - 1) : xs[j]["value"] < xs[i]["value"]]

\* find_lowest_heart_rate taking a missing bedtime_start for 0
find_lowest_heart_rate_default_start(values, sleep) ==
    IF NotTruthy(sleep, "bedtime_end") THEN <<>>
    ELSE IF NotIterable(values) \/ MissingKey(values, "timestamp") THEN <<>>
    ELSE LET sleep_hr_values ==
                 sleep_hr_values_lowest(values, Get(sleep, "bedtime_start", 0),
                                        sleep["bedtime_end"])
         IN  IF sleep_hr_values = <<>> THEN <<>>
             ELSE IF MissingKey(sleep_hr_values, "value") THEN <<>>
             ELSE LET lowest == MinByValue(sleep_hr_values)
                  IN  [value |-> lowest["value"], timestamp |-> lowest["timestamp"]]

\* the local sleep_hr_values once line 157 has run
LowestHrLocal(values, sleep) ==
    IF \/ NotTruthy(sleep, "bedtime_start") \/ NotTruthy(sleep, "bedtime_end")
       \/ NotIterable(values) \/ MissingKey(values, "timestamp")
    THEN <<>>
    ELSE <<sleep_hr_values_lowest(values, sleep["bedtime_start"], sleep["bedtime_end"])>>

find_lowest_heart_rate(values, sleep) ==
    IF NotTruthy(sleep, "bedtime_start") \/ NotTruthy(sleep, "bedtime_end")
    THEN <<>>
    ELSE IF NotIterable(values) \/ MissingKey(values, "timestamp") THEN <<>>
    ELSE LET sleep_hr_values ==
                 sleep_hr_values_lowest(values, sleep["bedtime_start"], sleep["bedtime_end"])
         IN  IF sleep_hr_values = <<>> THEN <<>>
             ELSE IF MissingKey(sleep_hr_values, "value") THEN <<>>
             ELSE LET lowest == MinByValue(sleep_hr_values)
                  IN  [value |-> lowest["value"], timestamp |-> lowest["timestamp"]]

----------------------------------------------------------------------------
(* get_sleep_metrics *)

SecondsPerHour == 3600

StageTags == {"deep_sleep", "light_sleep", "rem_sleep", "awake"}

\* stage.get("type") raises on a null stage that the scan for tag reaches:
\* the scan stops at the first stage of that type
StageScanRaises(sleep_stages, tag) ==
    \E i \in DOMAIN sleep_stages :
        /\ sleep_stages[i] = Null
        /\ \A j \in 1..(i - 1) : Get(sleep_stages[j], "type", "") # tag

\* lines 194-197 raise: sleep_stages is null or one of the four scans raises
StagesRaise(sleep_stages) ==
    \/ NotIterable(sleep_stages)
    \/ \E tag \in StageTags : StageScanRaises(sleep_stages, tag)

\* next((stage for stage in sleep_stages if stage.get("type") == tag), {}),
\* when the scan does not raise
FirstStage(sleep_stages, tag) ==
    LET hits == {i \in DOMAIN sleep_stages : Get(sleep_stages[i], "type", "") = tag}
    IN  IF hits = {} THEN <<>>
        ELSE sleep_stages[CHOOSE i \in hits : \A j \in hits : i <= j]

\* an exception of lines 194-197 is caught at line 209 and {} is returned
get_sleep_metrics(sleep) ==
    IF Falsy(sleep) THEN <<>>
    ELSE IF NotTruthy(sleep, "bedtime_start") \/ NotTruthy(sleep, "bedtime_end")
    THEN <<>>
    ELSE IF StagesRaise(Get(sleep, "sleep_stages", <<>>)) THEN <<>>
    ELSE LET seconds      == sleep["bedtime_end"] - sleep["bedtime_start"]
             sleep_stages == Get(sleep, "sleep_stages", <<>>)
         IN  [start                  |-> sleep["bedtime_start"],
              end                    |-> sleep["bedtime_end"],
              duration_seconds       |-> seconds,
              duration_formatted     |-> <<seconds \div SecondsPerHour,
                                           (seconds \div SecondsPerMinute) % 60>>,
              deep_sleep_percentage  |-> Get(FirstStage(sleep_stages, "deep_sleep"), "percentage", 0),
              light_sleep_percentage |-> Get(FirstStage(sleep_stages, "light_sleep"), "percentage", 0),
              rem_percentage         |-> Get(FirstStage(sleep_stages, "rem_sleep"), "percentage", 0),
              awake_percentage       |-> Get(FirstStage(sleep_stages, "awake"), "percentage", 0)]

----------------------------------------------------------------------------
(* analyze_temperature_data *)

TempDropThreshold == 1000
SubWindowSeconds == 1800

\* sleep_temp_values with the end of the window excluded
sleep_temp_values_open_end(values, bedtime_start, bedtime_end) ==
    SelectSeq(values, LAMBDA temp : temp["timestamp"] >= bedtime_start
                                   /\ temp["timestamp"] < bedtime_end)

sleep_temp_values(values, bedtime_start, bedtime_end) ==
    SelectSeq(values, LAMBDA temp : temp["timestamp"] >= bedtime_start
                                 /\ temp["timestamp"] <= bedtime_end)

\* TempDropQualifies with the heart-rate ceiling of 30 minutes
\* temp_change = current_temp - prev_temp, a float subtraction
temp_change(prev, cur) == DblSub(DblOfDecimal(cur["value"]), DblOfDecimal(prev["value"]))

\* temp_change <= -1.0, with no elapsed-time condition
TempDropQualifies(prev, cur) ==
    DblLeqDecimal(temp_change(prev, cur), -TempDropThreshold)

TempDropEvent(prev, cur) ==
    [timestamp         |-> cur["timestamp"],
     from_temp         |-> Round2(DblOfDecimal(prev["value"])),
     to_temp           |-> Round2(DblOfDecimal(cur["value"])),
     drop              |-> Round2(DblAbs(temp_change(prev, cur))),
     time_diff_seconds |-> cur["timestamp"] - prev["timestamp"]]

RECURSIVE TempDropWalk(_, _)
TempDropWalk(sorted_data, i) ==
    IF i < 2 THEN <<>>
    ELSE LET temp_drops == TempDropWalk(sorted_data, i - 1)
             prev       == sorted_data[i - 1]
             cur        == sorted_data[i]
         IN  IF TempDropQualifies(prev, cur)
             THEN Append(temp_drops, TempDropEvent(prev, cur))
             ELSE temp_drops

\* sum(values) / len(values) if values else None, then round(_, 2)
SubWindowAvg(temps) ==
    IF temps = <<>> THEN <<>> ELSE <<Round2(DblDivInt(DblSum(temps), Len(temps)))>>

\* the local sleep_temp_values once lines 224-226 have run
TemperatureLocal(values, sleep) ==
    IF \/ NotTruthy(sleep, "bedtime_start") \/ NotTruthy(sleep, "bedtime_end")
       \/ Empty(values) \/ MissingKey(values, "timestamp")
    THEN <<>>
    ELSE <<sleep_temp_values(values, sleep["bedtime_start"], sleep["bedtime_end"])>>

analyze_temperature_data(values, sleep) ==
    IF NotTruthy(sleep, "bedtime_start") \/ NotTruthy(sleep, "bedtime_end") \/ Empty(values)
    THEN <<>>
    ELSE IF MissingKey(values, "timestamp") THEN <<>>
    ELSE LET bedtime_start == sleep["bedtime_start"]
             bedtime_end   == sleep["bedtime_end"]
             in_window     == sleep_temp_values(values, bedtime_start, bedtime_end)
         IN  IF in_window = <<>> THEN <<>>
             ELSE IF MissingKey(in_window, "value") THEN <<>>
             ELSE LET sorted_data == SortByTimestamp(in_window)
                      min_entry   == MinByValue(sorted_data)
                      max_entry   == MaxByValue(sorted_data)
                      early == SelectSeq(sorted_data,
                          LAMBDA temp : temp["timestamp"] - bedtime_start <= SubWindowSeconds)
                      late  == SelectSeq(sorted_data,
                          LAMBDA temp : bedtime_end - temp["timestamp"] <= SubWindowSeconds)
                      min_temp    == DblOfDecimal(min_entry["value"])
                      max_temp    == DblOfDecimal(max_entry["value"])
                      avg_temp    == DblDivInt(DblSum(sorted_data), Len(sorted_data))
                  IN  [min_temp        |-> Round2(min_temp),
                       max_temp        |-> Round2(max_temp),
                       avg_temp        |-> Round2(avg_temp),
                       variation       |-> Round2(DblSub(max_temp, min_temp)),
                       min_temp_time   |-> min_entry["timestamp"],
                       max_temp_time   |-> max_entry["timestamp"],
                       early_sleep_avg |-> SubWindowAvg(early),
                       late_sleep_avg  |-> SubWindowAvg(late),
                       temp_drops      |-> TempDropWalk(sorted_data, Len(sorted_data))]

----------------------------------------------------------------------------
(* average HRV, inline in analyze_night_heart_rate *)

sleep_hrv(values, bedtime_start, bedtime_end) ==
    SelectSeq(values, LAMBDA hrv : hrv["timestamp"] >= bedtime_start
                                 /\ hrv["timestamp"] <= bedtime_end)

\* the recomputation branch is entered
HrvRecomputes(values, sleep) ==
    /\ ~Has(sleep, "avg_sleep_hrv")
    /\ ~Empty(values)
    /\ ~NotTruthy(sleep, "bedtime_start")
    /\ ~NotTruthy(sleep, "bedtime_end")

\* the local sleep_hrv once lines 445-447 have run
HrvLocal(values, sleep) ==
    IF ~HrvRecomputes(values, sleep) \/ MissingKey(values, "timestamp")
    THEN <<>>
    ELSE <<sleep_hrv(values, sleep["bedtime_start"], sleep["bedtime_end"])>>

\* the statements of lines 440-450 raise: nothing catches it before the
\* handler's own except clause
HrvRaises(values, sleep) ==
    IF Has(sleep, "avg_sleep_hrv")
    THEN sleep["avg_sleep_hrv"] = Null
    ELSE /\ HrvRecomputes(values, sleep)
         /\ \/ MissingKey(values, "timestamp")
            \/ MissingKey(sleep_hrv(values, sleep["bedtime_start"], sleep["bedtime_end"]), "value")

\* HrvAverage preferring the recomputed mean to the precomputed field
HrvAverageRecomputeFirst(values, sleep) ==
    LET in_window ==
            IF \/ Empty(values) \/ MissingKey(values, "timestamp")
               \/ NotTruthy(sleep, "bedtime_start") \/ NotTruthy(sleep, "bedtime_end")
            THEN <<>>
            ELSE sleep_hrv(values, sleep["bedtime_start"], sleep["bedtime_end"])
    IN  IF in_window # <<>> /\ ~MissingKey(in_window, "value")
        THEN <<TruncDiv(SumValues(in_window), Len(in_window))>>
        ELSE IF Has(sleep, "avg_sleep_hrv") /\ Has(sleep["avg_sleep_hrv"], "value")
        THEN sleep["avg_sleep_hrv"]["value"]
        ELSE <<>>

\* avg_hrv when nothing raises
HrvAverage(values, sleep) ==
    IF Has(sleep, "avg_sleep_hrv")
    THEN Get(sleep["avg_sleep_hrv"], "value", <<>>)
    ELSE IF ~HrvRecomputes(values, sleep) THEN <<>>
    ELSE LET in_window == sleep_hrv(values, sleep["bedtime_start"], sleep["bedtime_end"])
         IN  IF in_window = <<>> THEN <<>>
             ELSE <<TruncDiv(SumValues(in_window), Len(in_window))>>

----------------------------------------------------------------------------
(* extract_metrics_data *)

\* FirstMatch returning the last entry of the tag
LastMatch(metric_data, tag) ==
    LET hits == {i \in DOMAIN metric_data :
                    Has(metric_data[i], "type") /\ metric_data[i]["type"] = tag}
    IN  IF hits = {} THEN 0 ELSE CHOOSE i \in hits : \A j \in hits : i >= j

\* next((m for m in metric_data if m["type"] == tag), None): 0 stands for None
FirstMatch(metric_data, tag) ==
    LET hits == {i \in DOMAIN metric_data :
                    Has(metric_data[i], "type") /\ metric_data[i]["type"] = tag}
    IN  IF hits = {} THEN 0 ELSE CHOOSE i \in hits : \A j \in hits : i <= j

\* m["type"] raises on an entry the scan for tag reaches
ScanRaises(metric_data, tag) ==
    \E i \in DOMAIN metric_data :
        /\ ~Has(metric_data[i], "type")
        /\ FirstMatch(metric_data, tag) \in {0} \cup (i + 1)..Len(metric_data)

\* m.get("object", {}).get("values", []) raises when object is not a mapping
ValuesRaises(metric_data, tag) ==
    /\ FirstMatch(metric_data, tag) # 0
    /\ Get(metric_data[FirstMatch(metric_data, tag)], "object", <<>>) = Null

StreamValues(metric_data, tag) ==
    IF FirstMatch(metric_data, tag) = 0 THEN <<>>
    ELSE Get(Get(metric_data[FirstMatch(metric_data, tag)], "object", <<>>), "values", <<>>)

StreamObject(metric_data, tag) ==
    IF FirstMatch(metric_data, tag) = 0 THEN <<>>
    ELSE Get(metric_data[FirstMatch(metric_data, tag)], "object", <<>>)

ExtractRaises(doc) ==
    \/ doc = Null
    \/ Get(doc, "data", <<>>) = Null
    \/ LET metric_data == Get(Get(doc, "data", <<>>), "metric_data", <<>>)
       IN  \/ \E tag \in {"hr", "Sleep", "hrv", "temp"} : ScanRaises(metric_data, tag)
           \/ \E tag \in {"hr", "hrv", "temp"} : ValuesRaises(metric_data, tag)

\* <<hr_values, sleep_obj, hrv_values, temp_values>>
extract_metrics_data(doc) ==
    IF ExtractRaises(doc) THEN <<<<>>, <<>>, <<>>, <<>>>>
    ELSE LET metric_data == Get(Get(doc, "data", <<>>), "metric_data", <<>>)
         IN  <<StreamValues(metric_data, "hr"),
               StreamObject(metric_data, "Sleep"),
               StreamValues(metric_data, "hrv"),
               StreamValues(metric_data, "temp")>>

----------------------------------------------------------------------------
(* format_analysis_results: the parts of the report that are rendered *)

format_analysis_results(metrics, drops, lowest, temp, hrv) ==
    (IF metrics # <<>> THEN {"sleep_summary"} ELSE {})
    \cup (IF metrics # <<>> /\ Get(metrics, "deep_sleep_percentage", 0) # 0
          THEN {"sleep_stages"} ELSE {})
    \cup (IF lowest # <<>> /\ Has(lowest, "value")
          THEN {"lowest_hr"} ELSE {"lowest_hr_not_available"})
    \cup (IF hrv # <<>> THEN {"avg_hrv"} ELSE {})
    \cup (IF temp # <<>> THEN {"temperature"} ELSE {})
    \cup (IF /\ temp # <<>>
             /\ temp["early_sleep_avg"] \notin {<<>>, <<0>>}
             /\ temp["late_sleep_avg"] \notin {<<>>, <<0>>}
          THEN {"temperature_change"} ELSE {})
    \cup (IF temp # <<>> /\ temp["temp_drops"] # <<>> THEN {"temp_drops"} ELSE {})
    \cup (IF drops # <<>> THEN {"hr_drops"} ELSE {"no_hr_drops"})

----------------------------------------------------------------------------
(* Inputs *)

MaxEntries == 3
MaxSamples == 3

Sample(t, v) == [timestamp |-> t, value |-> v]

SeqsUpTo(S, n) == UNION {[1..m -> S] : m \in 0..n}

\* what fetch_ultrahuman_data returns when the request or the parse fails
FetchErrors ==
    {[api_error |-> "HTTP error"],
     [api_error |-> "Request error"],
     [api_error |-> "Invalid JSON response"],
     [api_error |-> "Unexpected error"]}

HrGood == <<Sample(1000, 70), Sample(1300, 55)>>
HrvGood == <<Sample(1000, 40), Sample(1300, 45)>>
HrvOutside == <<Sample(4700, 50)>>
TempGood == <<Sample(1000, 36500), Sample(4600, 35200)>>
NoTimestamp == <<[value |-> 60]>>

SleepWindowed == [bedtime_start |-> 1000, bedtime_end |-> 4600]
SleepNoStart == [bedtime_end |-> 4600]
\* the number-or-null under "value" is held as <<v>> or, for a JSON null, <<>>
AvgField == [avg_sleep_hrv |-> [value |-> <<45>>]]
AvgFieldNullValue == [avg_sleep_hrv |-> [value |-> <<>>]]

Stage(type, percentage) == [type |-> type, percentage |-> percentage]

\* stagings that hold a JSON null, before a deep_sleep stage or after one
\* stage of each type, or are one
NullStagings ==
    {<<Null, Stage("deep_sleep", 20)>>,
     <<Stage("deep_sleep", 20), Stage("light_sleep", 60), Stage("rem_sleep", 15),
       Stage("awake", 5), Null>>,
     NullList}

SleepPayloads ==
    {<<>>, SleepWindowed, SleepNoStart,
     SleepWindowed @@ AvgField, SleepNoStart @@ AvgField,
     SleepWindowed @@ [avg_sleep_hrv |-> Null],
     SleepWindowed @@ AvgFieldNullValue}
    \cup {SleepWindowed @@ [sleep_stages |-> stages] : stages \in NullStagings}

EntryPool ==
    {[type |-> "hr", object |-> [values |-> v]] : v \in {HrGood, NoTimestamp}}
    \cup {[type |-> "hr", object |-> Null], [type |-> "hr", object |-> [values |-> NullList]]}
    \cup {[type |-> "Sleep", object |-> o] : o \in SleepPayloads}
    \cup {[type |-> "hrv", object |-> [values |-> v]] : v \in {HrvGood, HrvOutside, NoTimestamp}}
    \cup {[type |-> "temp", object |-> [values |-> v]] : v \in {TempGood, NoTimestamp}}
    \cup {[object |-> <<>>]}

\* the documents a successful fetch may return
Documents ==
    {<<>>, Null, [data |-> <<>>], [data |-> Null], [status |-> "ok"]}
    \cup {[data |-> [metric_data |-> md]] : md \in SeqsUpTo(EntryPool, MaxEntries)}

\* the inputs of the analyzers taken alone: samples at the timestamps and
\* levels below, in any order
Timestamps == {1000, 2800, 4600}
Levels == 1..4
HrLevels == <<55, 65, 70, 80>>
HrvLevels == <<40, 45, 50, 55>>
\* 36.5 -> 35.2 falls by 1.3; 32.3 -> 31.3 falls by 1.0 in decimals, and by
\* less between the doubles nearest to them
TempLevels == <<31300, 32300, 35200, 36500>>

Shapes == SeqsUpTo(Timestamps \X Levels, MaxSamples)

SamplesOf(shape, levels) ==
    [i \in DOMAIN shape |-> Sample(shape[i][1], levels[shape[i][2]])]

Boundary(key, opt) == IF opt = <<>> THEN <<>> ELSE [k \in {key} |-> opt[1]]

Windows ==
    {Boundary("bedtime_start", s) @@ Boundary("bedtime_end", e) :
        s \in {<<>>, <<0>>, <<1000>>, <<2800>>}, e \in {<<>>, <<2800>>, <<4600>>}}

\* sleep objects with staging: a deep-sleep percentage of 0 or of 20
StagedWindows ==
    {[bedtime_start |-> 1000, bedtime_end |-> 4600,
      sleep_stages  |-> <<[type |-> "deep_sleep", percentage |-> p],
                          [type |-> "light_sleep", percentage |-> 60]>>] : p \in {0, 20}}

\* the sleep objects tried with HRV and temperature streams whose "values"
\* is a JSON null
NullStreamWindows == {SleepWindowed, [bedtime_start |-> 1000, bedtime_end |-> 2800]}

----------------------------------------------------------------------------
(* analyze_night_heart_rate *)

Outcome(kind, detail, sections) ==
    [kind |-> kind, detail |-> detail, sections |-> sections]

NoResult == Outcome("none", "", {})

\* the analyzers' filtered lists (the locals sleep_hr_values, sleep_hr_values,
\* sleep_temp_values, sleep_hrv): <<>> until the statement has run, then <<list>>
NoLocals == [hr_drops |-> <<>>, lowest_hr |-> <<>>, temperature |-> <<>>, hrv |-> <<>>]

Blank ==
    /\ hr_values = <<>> /\ sleep_obj = <<>> /\ hrv_values = <<>> /\ temp_values = <<>>
    /\ sleep_metrics = <<>> /\ hr_drops = <<>> /\ lowest_hr = <<>>
    /\ temp_analysis = <<>> /\ avg_hrv = <<>>
    /\ result = NoResult /\ executed = {} /\ filtered = NoLocals

Init == pc = "start" /\ api_data = <<>> /\ Blank

Finish(r) == pc' = "done" /\ result' = r

\* lines 390-393: no email argument and no DEFAULT_EMAIL ends the call
ResolveEmail ==
    /\ pc = "start"
    /\ \E resolvable \in BOOLEAN :
          IF resolvable
          THEN pc' = "fetch" /\ UNCHANGED result
          ELSE Finish(Outcome("no_email", "", {}))
    /\ executed' = executed \cup {"resolve_email"}
    /\ UNCHANGED <<filtered, api_data, hr_values, sleep_obj, hrv_values, temp_values,
                   sleep_metrics, hr_drops, lowest_hr, temp_analysis, avg_hrv>>

\* line 404 as far as the await of line 44: the request is built and sent and
\* the call is suspended; api_data is not bound yet and other tasks run
FetchAwait ==
    /\ pc = "fetch"
    /\ pc' = "fetch_suspended"
    /\ UNCHANGED <<api_data, executed, filtered, hr_values, sleep_obj, hrv_values,
                   temp_values, sleep_metrics, hr_drops, lowest_hr, temp_analysis,
                   avg_hrv, result>>

\* the task is cancelled while suspended: CancelledError is not an Exception,
\* so it passes the except clauses of lines 57-63 and 458 and leaves the call
FetchCancelled ==
    /\ pc = "fetch_suspended"
    /\ Finish(Outcome("uncaught_exception", "CancelledError", {}))
    /\ UNCHANGED <<api_data, executed, filtered, hr_values, sleep_obj, hrv_values,
                   temp_values, sleep_metrics, hr_drops, lowest_hr, temp_analysis,
                   avg_hrv>>

\* the call is resumed: lines 45-65, and line 404 binds api_data
Fetch ==
    /\ pc = "fetch_suspended"
    /\ api_data' \in FetchErrors \cup Documents
    /\ pc' = "check_error"
    /\ executed' = executed \cup {"fetch"}
    /\ UNCHANGED <<filtered, hr_values, sleep_obj, hrv_values, temp_values,
                   sleep_metrics, hr_drops, lowest_hr, temp_analysis, avg_hrv, result>>

\* CheckApiError without the early return
CheckApiErrorContinue ==
    /\ pc = "check_error"
    /\ pc' = "check_structure"
    /\ executed' = executed \cup {"check_error"}
    /\ UNCHANGED <<filtered, api_data, hr_values, sleep_obj, hrv_values, temp_values,
                   sleep_metrics, hr_drops, lowest_hr, temp_analysis, avg_hrv, result>>

\* lines 407-409; `"api_error" in None` raises outside the try of line 411,
\* so the exception leaves analyze_night_heart_rate and no string is returned
CheckApiError ==
    /\ pc = "check_error"
    /\ IF api_data = Null
       THEN Finish(Outcome("uncaught_exception", "TypeError", {}))
       ELSE IF Has(api_data, "api_error")
       THEN Finish(Outcome("fetch_error", api_data["api_error"], {}))
       ELSE pc' = "check_structure" /\ UNCHANGED result
    /\ executed' = executed \cup {"check_error"}
    /\ UNCHANGED <<filtered, api_data, hr_values, sleep_obj, hrv_values, temp_values,
                   sleep_metrics, hr_drops, lowest_hr, temp_analysis, avg_hrv>>

\* CheckStructure taking an empty metric_data list for a missing one
CheckStructureEmptyListInvalid ==
    /\ pc = "check_structure"
    /\ IF api_data = <<>> \/ ~Has(api_data, "data")
       THEN Finish(Outcome("no_valid_data", "", {}))
       ELSE IF api_data["data"] = Null
       THEN Finish(Outcome("processing_error", "", {}))
       ELSE IF Get(api_data["data"], "metric_data", <<>>) = <<>>
       THEN Finish(Outcome("no_valid_data", "", {}))
       ELSE pc' = "extract" /\ UNCHANGED result
    /\ executed' = executed \cup {"check_structure"}
    /\ UNCHANGED <<filtered, api_data, hr_values, sleep_obj, hrv_values, temp_values,
                   sleep_metrics, hr_drops, lowest_hr, temp_analysis, avg_hrv>>

\* lines 413-415; `"metric_data" not in None` raises into line 458
CheckStructure ==
    /\ pc = "check_structure"
    /\ IF api_data = <<>> \/ ~Has(api_data, "data")
       THEN Finish(Outcome("no_valid_data", "", {}))
       ELSE IF api_data["data"] = Null
       THEN Finish(Outcome("processing_error", "", {}))
       ELSE IF ~Has(api_data["data"], "metric_data")
       THEN Finish(Outcome("no_valid_data", "", {}))
       ELSE pc' = "extract" /\ UNCHANGED result
    /\ executed' = executed \cup {"check_structure"}
    /\ UNCHANGED <<filtered, api_data, hr_values, sleep_obj, hrv_values, temp_values,
                   sleep_metrics, hr_drops, lowest_hr, temp_analysis, avg_hrv>>

\* line 418
Extract ==
    /\ pc = "extract"
    /\ LET streams == extract_metrics_data(api_data)
       IN  /\ hr_values' = streams[1]
           /\ sleep_obj' = streams[2]
           /\ hrv_values' = streams[3]
           /\ temp_values' = streams[4]
    /\ pc' = "check_hr"
    /\ executed' = executed \cup {"extract"}
    /\ UNCHANGED <<filtered, api_data, sleep_metrics, hr_drops, lowest_hr, temp_analysis,
                   avg_hrv, result>>

\* lines 420-421
CheckHr ==
    /\ pc = "check_hr"
    /\ IF Empty(hr_values)
       THEN Finish(Outcome("no_hr_data", "", {}))
       ELSE pc' = "check_sleep" /\ UNCHANGED result
    /\ executed' = executed \cup {"check_hr"}
    /\ UNCHANGED <<filtered, api_data, hr_values, sleep_obj, hrv_values, temp_values,
                   sleep_metrics, hr_drops, lowest_hr, temp_analysis, avg_hrv>>

\* lines 423-424
CheckSleep ==
    /\ pc = "check_sleep"
    /\ IF Falsy(sleep_obj)
       THEN Finish(Outcome("no_sleep_data", "", {}))
       ELSE pc' = "sleep_metrics" /\ UNCHANGED result
    /\ executed' = executed \cup {"check_sleep"}
    /\ UNCHANGED <<filtered, api_data, hr_values, sleep_obj, hrv_values, temp_values,
                   sleep_metrics, hr_drops, lowest_hr, temp_analysis, avg_hrv>>

\* line 427
SleepMetrics ==
    /\ pc = "sleep_metrics"
    /\ sleep_metrics' = get_sleep_metrics(sleep_obj)
    /\ pc' = "hr_drops"
    /\ executed' = executed \cup {"sleep_metrics"}
    /\ UNCHANGED <<filtered, api_data, hr_values, sleep_obj, hrv_values, temp_values,
                   hr_drops, lowest_hr, temp_analysis, avg_hrv, result>>

\* line 430
HrDrops ==
    /\ pc = "hr_drops"
    /\ hr_drops' = find_heart_rate_drops(hr_values, sleep_obj)
    /\ pc' = "lowest_hr"
    /\ executed' = executed \cup {"hr_drops"}
    /\ filtered' = [filtered EXCEPT !.hr_drops = HrDropsLocal(hr_values, sleep_obj)]
    /\ UNCHANGED <<api_data, hr_values, sleep_obj, hrv_values, temp_values,
                   sleep_metrics, lowest_hr, temp_analysis, avg_hrv, result>>

\* line 433
LowestHr ==
    /\ pc = "lowest_hr"
    /\ lowest_hr' = find_lowest_heart_rate(hr_values, sleep_obj)
    /\ pc' = "temperature"
    /\ executed' = executed \cup {"lowest_hr"}
    /\ filtered' = [filtered EXCEPT !.lowest_hr = LowestHrLocal(hr_values, sleep_obj)]
    /\ UNCHANGED <<api_data, hr_values, sleep_obj, hrv_values, temp_values,
                   sleep_metrics, hr_drops, temp_analysis, avg_hrv, result>>

\* line 436
Temperature ==
    /\ pc = "temperature"
    /\ temp_analysis' = analyze_temperature_data(temp_values, sleep_obj)
    /\ pc' = "hrv"
    /\ executed' = executed \cup {"temperature"}
    /\ filtered' = [filtered EXCEPT !.temperature = TemperatureLocal(temp_values, sleep_obj)]
    /\ UNCHANGED <<api_data, hr_values, sleep_obj, hrv_values, temp_values,
                   sleep_metrics, hr_drops, lowest_hr, avg_hrv, result>>

\* lines 439-450; an exception here reaches the handler's except clause
\* (lines 458-462) and ends the call without a report
Hrv ==
    /\ pc = "hrv"
    /\ IF HrvRaises(hrv_values, sleep_obj)
       THEN /\ Finish(Outcome("processing_error", "", {}))
            /\ UNCHANGED avg_hrv
       ELSE /\ avg_hrv' = HrvAverage(hrv_values, sleep_obj)
            /\ pc' = "format"
            /\ UNCHANGED result
    /\ executed' = executed \cup {"hrv"}
    /\ filtered' = [filtered EXCEPT !.hrv = HrvLocal(hrv_values, sleep_obj)]
    /\ UNCHANGED <<api_data, hr_values, sleep_obj, hrv_values, temp_values,
                   sleep_metrics, hr_drops, lowest_hr, temp_analysis>>

\* lines 453-456
Format ==
    /\ pc = "format"
    /\ Finish(Outcome("report", "",
                      format_analysis_results(sleep_metrics, hr_drops, lowest_hr,
                                              temp_analysis, avg_hrv)))
    /\ executed' = executed \cup {"format"}
    /\ UNCHANGED <<filtered, api_data, hr_values, sleep_obj, hrv_values, temp_values,
                   sleep_metrics, hr_drops, lowest_hr, temp_analysis, avg_hrv>>

Next ==
    \/ ResolveEmail \/ FetchAwait \/ FetchCancelled \/ Fetch
    \/ CheckApiError \/ CheckStructure
    \/ Extract \/ CheckHr \/ CheckSleep
    \/ SleepMetrics \/ HrDrops \/ LowestHr \/ Temperature \/ Hrv \/ Format

Spec == Init /\ [][Next]_vars

----------------------------------------------------------------------------
(* The analyzers taken alone: lines 427-456 applied to every stream of     *)
(* samples and every sleep object of the bounded input sets                *)

InitAnalyzers ==
    /\ pc = "sleep_metrics"
    /\ api_data = <<>>
    /\ \/ /\ \E shape \in Shapes :
                /\ hr_values = SamplesOf(shape, HrLevels)
                /\ hrv_values = SamplesOf(shape, HrvLevels)
                /\ temp_values = SamplesOf(shape, TempLevels)
          /\ sleep_obj \in Windows \cup StagedWindows
       \/ /\ hr_values = HrGood /\ hrv_values = NullList /\ temp_values = NullList
          /\ sleep_obj \in NullStreamWindows
    /\ sleep_metrics = <<>> /\ hr_drops = <<>> /\ lowest_hr = <<>>
    /\ temp_analysis = <<>> /\ avg_hrv = <<>>
    /\ result = NoResult /\ executed = {} /\ filtered = NoLocals

NextAnalyzers ==
    SleepMetrics \/ HrDrops \/ LowestHr \/ Temperature \/ Hrv \/ Format

SpecAnalyzers == InitAnalyzers /\ [][NextAnalyzers]_vars

----------------------------------------------------------------------------
(* Properties of the analyzers taken alone (SpecAnalyzers)                 *)

\* the window as the analyzers resolve it (lines 97-101, 150-154, 217-221):
\* both boundaries present and not zero
WindowResolved(sleep) ==
    /\ Has(sleep, "bedtime_start") /\ sleep["bedtime_start"] # 0
    /\ Has(sleep, "bedtime_end") /\ sleep["bedtime_end"] # 0

\* the defined window of the specification: both boundaries are present
BoundariesPresent(sleep) == Has(sleep, "bedtime_start") /\ Has(sleep, "bedtime_end")

\* indices of the samples inside the window
InWindowIdx(values, sleep) ==
    IF values = NullList THEN {}
    ELSE {i \in DOMAIN values : /\ sleep["bedtime_start"] <= values[i]["timestamp"]
                                /\ values[i]["timestamp"] <= sleep["bedtime_end"]}

\* sample i stands before sample j in the timestamp-sorted sequence
\* (equal timestamps keep their input order)
Before(values, i, j) ==
    \/ values[i]["timestamp"] < values[j]["timestamp"]
    \/ values[i]["timestamp"] = values[j]["timestamp"] /\ i < j

Adjacent(values, W, i, j) ==
    /\ i \in W /\ j \in W /\ Before(values, i, j)
    /\ ~\E k \in W : Before(values, i, k) /\ Before(values, k, j)

\* the k-th index of J in sorted order
NthSorted(values, J, k) ==
    CHOOSE j \in J : Cardinality({x \in J : Before(values, x, j)}) = k - 1

NonDecreasingTimestamps(events) ==
    \A k \in 1..(Len(events) - 1) : events[k]["timestamp"] <= events[k + 1]["timestamp"]

\* later samples of the adjacent pairs that fall by 10 BPM or more within 1800 s
HrDropLater(values, sleep) ==
    LET W == InWindowIdx(values, sleep)
    IN  {j \in W : \E i \in W :
            /\ Adjacent(values, W, i, j)
            /\ values[j]["value"] - values[i]["value"] <= -10
            /\ values[j]["timestamp"] - values[i]["timestamp"] <= 1800}

ExpectedHrEvent(values, sleep, j) ==
    LET W == InWindowIdx(values, sleep)
        i == CHOOSE x \in W : Adjacent(values, W, x, j)
    IN  [timestamp         |-> values[j]["timestamp"],
         from_hr           |-> values[i]["value"],
         to_hr             |-> values[j]["value"],
         drop              |-> Abs(values[j]["value"] - values[i]["value"]),
         time_diff_seconds |-> values[j]["timestamp"] - values[i]["timestamp"]]

\* hr_drops holds, in ascending timestamp order, exactly one event per pair
\* adjacent in the timestamp-sorted in-window sequence with a fall of 10 or
\* more within 1800 s, carrying the later timestamp, both values and the
\* magnitude, and no other event
DropsPerQualifyingPair ==
    LET J == HrDropLater(hr_values, sleep_obj)
    IN  /\ Len(hr_drops) = Cardinality(J)
        /\ \A k \in 1..Cardinality(J) :
              hr_drops[k] = ExpectedHrEvent(hr_values, sleep_obj,
                                            NthSorted(hr_values, J, k))
        /\ NonDecreasingTimestamps(hr_drops)

\* C1: for every sample sequence and every defined window (both boundaries
\* present, a bedtime_start of 0 included), find_heart_rate_drops returns, in
\* ascending timestamp order, exactly one event per pair adjacent in the
\* timestamp-sorted in-window sequence with a fall of 10 or more within
\* 1800 s, carrying the later timestamp, both values and the magnitude, and
\* no other event
C1_DropsPerQualifyingPair ==
    ("hr_drops" \in executed /\ BoundariesPresent(sleep_obj)) => DropsPerQualifyingPair

\* the same for the windows whose boundaries are not zero
HrDropsInNonZeroWindow ==
    ("hr_drops" \in executed /\ WindowResolved(sleep_obj)) => DropsPerQualifyingPair

\* a decline in two steps given out of timestamp order yields two events,
\* while a fall of 15 across more than 1800 s in the same night yields none
HrDropsTwoSteps ==
    /\ "hr_drops" \in executed /\ WindowResolved(sleep_obj)
    /\ Len(hr_values) = 3 /\ Len(hr_drops) = 2
    /\ hr_values[1]["timestamp"] > hr_values[2]["timestamp"]
    /\ hr_drops[2]["from_hr"] = hr_drops[1]["to_hr"]
    /\ hr_drops[2]["drop"] = 15

\* later samples of the adjacent pairs that fall by 1.0 degree or more
TempDropLater(values, sleep) ==
    LET W == InWindowIdx(values, sleep)
    IN  {j \in W : \E i \in W :
            /\ Adjacent(values, W, i, j)
            /\ values[j]["value"] - values[i]["value"] <= -1000}

\* the inputs carry at most two decimals, so the reported values are the inputs
ExpectedTempEvent(values, sleep, j) ==
    LET W == InWindowIdx(values, sleep)
        i == CHOOSE x \in W : Adjacent(values, W, x, j)
    IN  [timestamp         |-> values[j]["timestamp"],
         from_temp         |-> values[i]["value"],
         to_temp           |-> values[j]["value"],
         drop              |-> Abs(values[j]["value"] - values[i]["value"]),
         time_diff_seconds |-> values[j]["timestamp"] - values[i]["timestamp"]]

TempDropsOf(analysis) == IF analysis = <<>> THEN <<>> ELSE analysis["temp_drops"]

\* C2: for every temperature sequence and resolved window, temp_drops holds
\* exactly one event per pair adjacent in the timestamp-sorted in-window
\* sequence with a fall of 1.0 degree or more, whatever the elapsed time
\* (the readings and the fall are those of the document, in decimals)
C2_TempDropsIgnoreElapsedTime ==
    ("temperature" \in executed /\ WindowResolved(sleep_obj)) =>
        LET J == TempDropLater(temp_values, sleep_obj)
            drops == TempDropsOf(temp_analysis)
        IN  /\ Len(drops) = Cardinality(J)
            /\ \A k \in 1..Cardinality(J) :
                  drops[k] = ExpectedTempEvent(temp_values, sleep_obj,
                                               NthSorted(temp_values, J, k))

Occurrences(xs, x) == Cardinality({i \in DOMAIN xs : xs[i] = x})

Range(xs) == {xs[i] : i \in DOMAIN xs}

TimestampsOf(xs) == [i \in DOMAIN xs |-> xs[i]["timestamp"]]

\* kept holds every sample of values with start <= timestamp <= end, as many
\* times as values does, and nothing else
KeepsExactlyWindow(kept, values, sleep) ==
    /\ \A x \in Range(values) :
          Occurrences(kept, x) =
              IF /\ sleep["bedtime_start"] <= x["timestamp"]
                 /\ x["timestamp"] <= sleep["bedtime_end"]
              THEN Occurrences(values, x) ELSE 0
    /\ Range(kept) \subseteq Range(values)

FilterSteps == {"hr_drops", "lowest_hr", "temperature", "hrv"}

FilterInput(step) ==
    CASE step = "temperature" -> temp_values
      [] step = "hrv" -> hrv_values
      [] OTHER -> hr_values

\* C7: each of the four window filters keeps a sample iff
\* start <= timestamp <= end, both boundaries included, and on the same
\* timestamps and window the four keep the same ones
C7_FiltersInclusive ==
    /\ \A step \in FilterSteps :
          filtered[step] # <<>> =>
              KeepsExactlyWindow(filtered[step][1], FilterInput(step), sleep_obj)
    /\ \A a, b \in FilterSteps :
          (filtered[a] # <<>> /\ filtered[b] # <<>>) =>
              TimestampsOf(filtered[a][1]) = TimestampsOf(filtered[b][1])

\* all four filters have run; a sample at exactly start and one at exactly
\* end are kept and a sample outside is dropped
C7_Witness ==
    /\ \A step \in FilterSteps : filtered[step] # <<>>
    /\ \A step \in FilterSteps :
          /\ \E x \in Range(filtered[step][1]) : x["timestamp"] = sleep_obj["bedtime_start"]
          /\ \E x \in Range(filtered[step][1]) : x["timestamp"] = sleep_obj["bedtime_end"]
          /\ Len(filtered[step][1]) < Len(FilterInput(step))

\* lowest_hr is the value and timestamp of the first sample, in input order,
\* among the in-window samples of minimal value, and no lowest value when
\* no sample is in the window
LowestIsFirstMinimum ==
    LET W == InWindowIdx(hr_values, sleep_obj)
    IN  IF W = {} THEN lowest_hr = <<>>
        ELSE \E i \in W :
                /\ \A j \in W : hr_values[j]["value"] >= hr_values[i]["value"]
                /\ \A j \in W : j < i => hr_values[j]["value"] > hr_values[i]["value"]
                /\ lowest_hr = [value     |-> hr_values[i]["value"],
                                timestamp |-> hr_values[i]["timestamp"]]

\* C8: for every defined window (both boundaries present, a bedtime_start of
\* 0 included) find_lowest_heart_rate returns the value and timestamp of the
\* first sample, in input order, among the in-window samples of minimal
\* value, and no lowest value when no sample is in the window
C8_LowestIsFirstMinimum ==
    ("lowest_hr" \in executed /\ BoundariesPresent(sleep_obj)) => LowestIsFirstMinimum

\* the same for the windows whose boundaries are not zero
LowestInNonZeroWindow ==
    ("lowest_hr" \in executed /\ WindowResolved(sleep_obj)) => LowestIsFirstMinimum

\* two in-window samples share the minimum and the one given first is the
\* later in time: it is the one returned
LowestTieGivenFirst ==
    /\ "lowest_hr" \in executed /\ WindowResolved(sleep_obj)
    /\ lowest_hr # <<>>
    /\ \E i, j \in InWindowIdx(hr_values, sleep_obj) :
          /\ i < j
          /\ hr_values[i]["value"] = lowest_hr["value"]
          /\ hr_values[j]["value"] = lowest_hr["value"]
          /\ hr_values[i]["timestamp"] > hr_values[j]["timestamp"]
          /\ lowest_hr["timestamp"] = hr_values[i]["timestamp"]

----------------------------------------------------------------------------
(* Properties of analyze_night_heart_rate (Spec)                           *)

AnalysisBlank ==
    /\ hr_drops = <<>> /\ lowest_hr = <<>> /\ temp_analysis = <<>>

NoBedtimeStart == ~Falsy(sleep_obj) /\ ~Has(sleep_obj, "bedtime_start")

\* C3 as stated: with a non-empty sleep object lacking bedtime_start the
\* heart-rate and temperature analyses are empty and the average HRV is
\* undefined, whatever the streams and the other sleep fields hold
C3_NoStartAllUndefined ==
    (NoBedtimeStart /\ "hrv" \in executed) =>
        (AnalysisBlank /\ avg_hrv = <<>>)

\* C3 amended: with a non-empty sleep object lacking bedtime_start the
\* heart-rate and temperature analyses are empty, and the average HRV is
\* undefined unless the sleep object carries avg_sleep_hrv
C3_NoStartUndefinedUnlessPrecomputed ==
    (NoBedtimeStart /\ "hrv" \in executed) =>
        /\ AnalysisBlank
        /\ ~Has(sleep_obj, "avg_sleep_hrv") => avg_hrv = <<>>

\* a report made from heart-rate and HRV samples and a sleep object holding
\* only bedtime_end: every analysis is in its no-data state
C3_Witness ==
    /\ NoBedtimeStart /\ ~Has(sleep_obj, "avg_sleep_hrv")
    /\ hr_values = HrGood /\ hrv_values = HrvGood
    /\ pc = "done" /\ result["kind"] = "report"
    /\ AnalysisBlank /\ avg_hrv = <<>>
    /\ result["sections"] = {"lowest_hr_not_available", "no_hr_drops"}

WellFormedSamples(values) ==
    /\ values # NullList
    /\ \A i \in DOMAIN values : Has(values[i], "timestamp") /\ Has(values[i], "value")

RECURSIVE SumOver(_, _)
SumOver(values, I) ==
    IF I = {} THEN 0
    ELSE LET i == CHOOSE x \in I : TRUE
         IN  values[i]["value"] + SumOver(values, I \ {i})

Precomputed ==
    Has(sleep_obj, "avg_sleep_hrv") /\ sleep_obj["avg_sleep_hrv"] # Null

\* C4: once the HRV step has run, a precomputed avg_sleep_hrv field is the
\* average reported whatever the raw samples; without the field the average
\* is the in-window mean truncated to an integer, and it is undefined when
\* no sample lies in the window
C4_PrecomputedHrvWins ==
    "hrv" \in executed =>
        /\ Precomputed =>
              avg_hrv = IF Has(sleep_obj["avg_sleep_hrv"], "value")
                        THEN sleep_obj["avg_sleep_hrv"]["value"] ELSE <<>>
        /\ (~Has(sleep_obj, "avg_sleep_hrv") /\ avg_hrv # <<>>) =>
              /\ WindowResolved(sleep_obj) /\ WellFormedSamples(hrv_values)
              /\ LET W == InWindowIdx(hrv_values, sleep_obj)
                 IN  /\ W # {}
                     /\ avg_hrv[1] * Cardinality(W) <= SumOver(hrv_values, W)
                     /\ SumOver(hrv_values, W) < (avg_hrv[1] + 1) * Cardinality(W)
        /\ (/\ ~Has(sleep_obj, "avg_sleep_hrv") /\ WellFormedSamples(hrv_values)
            /\ (~WindowResolved(sleep_obj) \/ InWindowIdx(hrv_values, sleep_obj) = {})) =>
              avg_hrv = <<>>

\* the field holds 45 while the in-window samples 40 and 45 average 42: the
\* report carries 45
C4_Witness ==
    /\ pc = "done" /\ result["kind"] = "report"
    /\ Precomputed /\ sleep_obj["avg_sleep_hrv"]["value"] = <<45>>
    /\ WindowResolved(sleep_obj) /\ hrv_values = HrvGood
    /\ InWindowIdx(hrv_values, sleep_obj) = {1, 2}
    /\ avg_hrv = <<45>> /\ "avg_hrv" \in result["sections"]

AfterFetchCheck ==
    {"check_structure", "extract", "check_hr", "check_sleep", "sleep_metrics",
     "hr_drops", "lowest_hr", "temperature", "hrv", "format"}

\* C5: a fetch error ends the call with that error's detail, and neither
\* the extraction nor any analyzer step runs
C5_FetchErrorShortCircuits ==
    Has(api_data, "api_error") =>
        /\ executed \cap AfterFetchCheck = {}
        /\ hr_values = <<>> /\ sleep_obj = <<>> /\ hrv_values = <<>> /\ temp_values = <<>>
        /\ sleep_metrics = <<>> /\ AnalysisBlank /\ avg_hrv = <<>>
        /\ pc \in {"check_error", "done"}
        /\ pc = "done" => result = Outcome("fetch_error", api_data["api_error"], {})

C5_Witness ==
    /\ pc = "done" /\ api_data = [api_error |-> "Request error"]
    /\ result["kind"] = "fetch_error" /\ result["detail"] = "Request error"
    /\ executed = {"resolve_email", "fetch", "check_error"}

\* C6: with heart-rate samples and a sleep object both non-empty the call
\* ends in the report even when an analyzer meets malformed input; stated
\* for well-formed heart-rate and temperature samples, where the HRV
\* aggregation is the single analyzer that can fail
C6_ReportDespiteAnalyzerFailure ==
    (/\ pc = "done" /\ "check_sleep" \in executed
     /\ ~Empty(hr_values) /\ ~Falsy(sleep_obj)
     /\ WellFormedSamples(hr_values) /\ WellFormedSamples(temp_values)) =>
        result["kind"] = "report"

----------------------------------------------------------------------------
(* Properties of extract_metrics_data (Spec)                               *)

Carries(entry, tag) == Has(entry, "type") /\ entry["type"] = tag

Payload(entry, tag) ==
    IF tag = "Sleep" THEN Get(entry, "object", <<>>)
    ELSE IF Get(entry, "object", <<>>) = Null THEN <<>>
    ELSE Get(Get(entry, "object", <<>>), "values", <<>>)

\* stream is the payload of the first entry carrying tag, or empty without one
FirstPayloadIs(metric_data, tag, stream) ==
    \/ /\ \A i \in DOMAIN metric_data : ~Carries(metric_data[i], tag)
       /\ stream = <<>>
    \/ \E i \in DOMAIN metric_data :
          /\ Carries(metric_data[i], tag)
          /\ \A j \in 1..(i - 1) : ~Carries(metric_data[j], tag)
          /\ stream = Payload(metric_data[i], tag)

EachFirstPayload(metric_data) ==
    /\ FirstPayloadIs(metric_data, "hr", hr_values)
    /\ FirstPayloadIs(metric_data, "Sleep", sleep_obj)
    /\ FirstPayloadIs(metric_data, "hrv", hrv_values)
    /\ FirstPayloadIs(metric_data, "temp", temp_values)

AllDefault ==
    hr_values = <<>> /\ sleep_obj = <<>> /\ hrv_values = <<>> /\ temp_values = <<>>

\* every entry carries a type and no entry's object is null
WellFormedEntries(metric_data) ==
    \A i \in DOMAIN metric_data :
        Has(metric_data[i], "type") /\ Get(metric_data[i], "object", <<>>) # Null

\* C9 as stated: for every metric_data list each of the four results is the
\* payload of the first entry carrying its tag, or the default without one
C9_FirstEntryPerTag ==
    "extract" \in executed => EachFirstPayload(api_data["data"]["metric_data"])

\* C9 amended: that holds for every list whose entries all carry a type and
\* a non-null object; for any other list the four results are either those
\* or all four defaults
C9_FirstEntryPerTagWhenWellFormed ==
    "extract" \in executed =>
        LET metric_data == api_data["data"]["metric_data"]
        IN  /\ WellFormedEntries(metric_data) => EachFirstPayload(metric_data)
            /\ EachFirstPayload(metric_data) \/ AllDefault

\* two hr entries with different payloads, then a Sleep entry: the first hr
\* payload and the Sleep payload are returned
C9_Witness ==
    /\ "extract" \in executed
    /\ LET metric_data == api_data["data"]["metric_data"]
       IN  /\ Len(metric_data) = 3 /\ WellFormedEntries(metric_data)
           /\ Carries(metric_data[1], "hr") /\ Carries(metric_data[2], "hr")
           /\ metric_data[1] # metric_data[2]
           /\ Carries(metric_data[3], "Sleep")
           /\ hr_values = metric_data[1]["object"]["values"] /\ hr_values = HrGood
           /\ sleep_obj = metric_data[3]["object"] /\ sleep_obj = SleepWindowed
           /\ hrv_values = <<>> /\ temp_values = <<>>

EmptyMetricData ==
    /\ Has(api_data, "data") /\ api_data["data"] # Null
    /\ Has(api_data["data"], "metric_data")
    /\ api_data["data"]["metric_data"] = <<>>

\* C10: a document with data present and an empty metric_data list ends in
\* "no heart-rate data"; a heart-rate stream that is missing, empty or a JSON
\* null ends the call there, before the sleep object is looked at
C10_EmptyMetricDataIsNoHrData ==
    /\ (pc = "done" /\ EmptyMetricData) => result = Outcome("no_hr_data", "", {})
    /\ ("check_hr" \in executed /\ Empty(hr_values)) =>
          /\ pc = "done" /\ result["kind"] = "no_hr_data"
          /\ "check_sleep" \notin executed

C10_Witness ==
    /\ pc = "done" /\ EmptyMetricData
    /\ result["kind"] = "no_hr_data"
    /\ executed = {"resolve_email", "fetch", "check_error", "check_structure",
                   "extract", "check_hr"}

----------------------------------------------------------------------------
(* Presence and truthiness of the optional numeric fields (SpecAnalyzers)  *)

\* the sleep object lists a deep_sleep stage carrying a percentage
DeepSleepMeasured(sleep) ==
    \E i \in DOMAIN Get(sleep, "sleep_stages", <<>>) :
        /\ Get(sleep["sleep_stages"][i], "type", "") = "deep_sleep"
        /\ Has(sleep["sleep_stages"][i], "percentage")

\* C11: an optional numeric field present with the value 0 has the outcome of
\* the same field present with another value: a window whose two boundaries
\* are present, bedtime_start = 0 included, is a defined window for the sleep
\* metrics, the heart-rate drops, the lowest heart rate, the temperature
\* analysis and the HRV mean, and a measured stage percentage or sub-window
\* mean of 0 is rendered like any other
C11_PresenceNotTruthiness ==
    BoundariesPresent(sleep_obj) =>
        /\ "sleep_metrics" \in executed => sleep_metrics # <<>>
        /\ "hr_drops" \in executed =>
              Len(hr_drops) = Cardinality(HrDropLater(hr_values, sleep_obj))
        /\ "lowest_hr" \in executed =>
              (lowest_hr = <<>> <=> InWindowIdx(hr_values, sleep_obj) = {})
        /\ "temperature" \in executed =>
              (temp_analysis = <<>> <=> InWindowIdx(temp_values, sleep_obj) = {})
        /\ ("hrv" \in executed /\ ~Has(sleep_obj, "avg_sleep_hrv")) =>
              (avg_hrv = <<>> <=> InWindowIdx(hrv_values, sleep_obj) = {})
        /\ (pc = "done" /\ DeepSleepMeasured(sleep_obj)) =>
              "sleep_stages" \in result["sections"]
        /\ (/\ pc = "done" /\ temp_analysis # <<>>
            /\ temp_analysis["early_sleep_avg"] # <<>>
            /\ temp_analysis["late_sleep_avg"] # <<>>) =>
              "temperature_change" \in result["sections"]

====
